---------------------------- MODULE Spec2Model ----------------------------
(***************************************************************************)
(* Model of thonny/flasher.py (class BaseFlasher): the UF2 flasher dialog. *)
(*                                                                         *)
(* Python str values are modelled as sequences of one-character strings,   *)
(* so that prefix tests, substring tests, replacement, lower-casing and    *)
(* splitting are computed character by character as the code does.         *)
(* Python dicts are modelled as sequences of <<key, value>> pairs with     *)
(* pairwise distinct keys, in insertion order.                             *)
(* Optional[...] values: an absent str is the value None below, an absent  *)
(* object is the empty set and a present object x is the set {x}.          *)
(***************************************************************************)
EXTENDS Integers, Sequences, FiniteSets, TLC

(***************************************************************************)
(* Python str primitives                                                   *)
(***************************************************************************)

\* Python's None for Optional[str]: a sequence no str equals (every str is a
\* sequence of one-character strings).
None == <<"None">>

UpperChars ==
    <<"A", "B", "C", "D", "E", "F", "G", "H", "I", "J", "K", "L", "M",
      "N", "O", "P", "Q", "R", "S", "T", "U", "V", "W", "X", "Y", "Z">>

LowerChars ==
    <<"a", "b", "c", "d", "e", "f", "g", "h", "i", "j", "k", "l", "m",
      "n", "o", "p", "q", "r", "s", "t", "u", "v", "w", "x", "y", "z">>

\* the characters str.split() and str.splitlines() treat specially
Whitespace == {" ", "\n", "\t"}

char_lower(c) ==
    IF \E i \in DOMAIN UpperChars : UpperChars[i] = c
    THEN LowerChars[CHOOSE i \in DOMAIN UpperChars : UpperChars[i] = c]
    ELSE c

\* str.lower()
str_lower(s) == [i \in 1..Len(s) |-> char_lower(s[i])]

\* str.replace(old, new) for a one-character old; new is a str (maybe empty)
RECURSIVE str_replace(_, _, _)
str_replace(s, old, new) ==
    IF s = <<>> THEN <<>>
    ELSE (IF Head(s) = old THEN new ELSE <<Head(s)>>)
         \o str_replace(Tail(s), old, new)

\* str.startswith(prefix)
str_startswith(s, prefix) ==
    /\ Len(prefix) <= Len(s)
    /\ SubSeq(s, 1, Len(prefix)) = prefix

\* sub in s
str_contains(s, sub) ==
    \E i \in 0..(Len(s) - Len(sub)) : SubSeq(s, i + 1, i + Len(sub)) = sub

\* str.split() with no argument: the maximal runs of non-whitespace, in order.
\* cur is the word being collected.
RECURSIVE split_from(_, _)
split_from(s, cur) ==
    IF s = <<>> THEN (IF cur = <<>> THEN <<>> ELSE <<cur>>)
    ELSE IF Head(s) \in Whitespace
         THEN (IF cur = <<>> THEN <<>> ELSE <<cur>>) \o split_from(Tail(s), <<>>)
         ELSE split_from(Tail(s), Append(cur, Head(s)))

str_split(s) == split_from(s, <<>>)

\* str.splitlines(): the lines without their line ends; a trailing line end
\* opens no further line.
RECURSIVE splitlines_from(_, _)
splitlines_from(s, cur) ==
    IF s = <<>> THEN (IF cur = <<>> THEN <<>> ELSE <<cur>>)
    ELSE IF Head(s) = "\n"
         THEN <<cur>> \o splitlines_from(Tail(s), <<>>)
         ELSE splitlines_from(Tail(s), Append(cur, Head(s)))

str_splitlines(s) == splitlines_from(s, <<>>)

\* str.strip(c) for a one-character c
RECURSIVE str_lstrip(_, _)
str_lstrip(s, c) ==
    IF s # <<>> /\ Head(s) = c THEN str_lstrip(Tail(s), c) ELSE s

RECURSIVE str_rstrip(_, _)
str_rstrip(s, c) ==
    IF s # <<>> /\ s[Len(s)] = c THEN str_rstrip(SubSeq(s, 1, Len(s) - 1), c) ELSE s

str_strip(s, c) == str_rstrip(str_lstrip(s, c), c)

SeqToSet(q) == {q[i] : i \in DOMAIN q}

(***************************************************************************)
(* Python dict primitives (insertion ordered, unique keys)                 *)
(***************************************************************************)

dict_keys(d) == {d[i][1] : i \in DOMAIN d}

dict_values(d) == [i \in DOMAIN d |-> d[i][2]]

dict_has(d, k) == \E i \in DOMAIN d : d[i][1] = k

\* d[k] for a key that is present
dict_get(d, k) == d[CHOOSE i \in DOMAIN d : d[i][1] = k][2]

\* d[k] = v: a present key keeps its position and takes the new value, a new
\* key is appended
dict_set(d, k, v) ==
    IF dict_has(d, k)
    THEN [i \in DOMAIN d |-> IF d[i][1] = k THEN <<k, v>> ELSE d[i]]
    ELSE Append(d, <<k, v>>)

\* {key(x): val(x) for x in items}, items a sequence of <<k, v>> pairs
RECURSIVE dict_from(_, _)
dict_from(items, acc) ==
    IF items = <<>> THEN acc
    ELSE dict_from(Tail(items), dict_set(acc, Head(items)[1], Head(items)[2]))

\* d1 == d2 on dicts: the same items, whatever the insertion order
dict_eq(d1, d2) == SeqToSet(d1) = SeqToSet(d2)

(***************************************************************************)
(* Metadata parser                                                         *)
(***************************************************************************)

\* find_uf2_property(lines, prop_name): the rest of the first line that starts
\* with prop_name + ": ", None when there is no such line
find_uf2_property(lines, prop_name) ==
    LET marker == prop_name \o <<":", " ">>
        hits == {i \in DOMAIN lines : str_startswith(lines[i], marker)}
    IN  IF hits = {} THEN None
        ELSE LET first == CHOOSE i \in hits : \A j \in hits : i <= j
             IN  SubSeq(lines[first], Len(marker) + 1, Len(lines[first]))

\* the literal of line 283, the repeated last entry included
FamilyKeywords ==
    << <<"s", "a", "m", "d", "2", "1">>,
       <<"s", "a", "m", "d", "5", "1">>,
       <<"n", "r", "f", "5", "1">>,
       <<"n", "r", "f", "5", "2">>,
       <<"e", "s", "p", "3", "2", "s", "3">>,
       <<"e", "s", "p", "3", "2", "s", "3">> >>

Rp2Marker == <<"b", "o", "a", "r", "d", "i", "d", ":", "r", "p", "i", "r", "p", "2">>

\* line 275
normalize_content(info_content) ==
    str_replace(str_replace(str_replace(str_lower(info_content),
                                        " ", <<>>), "_", <<>>), "-", <<>>)

\* the for/else of lines 283-288: the first keyword of the list, from
\* position k on, that the content contains
RECURSIVE keyword_scan(_, _)
keyword_scan(normalized_content, k) ==
    IF k > Len(FamilyKeywords) THEN None
    ELSE IF str_contains(normalized_content, FamilyKeywords[k])
         THEN FamilyKeywords[k]
         ELSE keyword_scan(normalized_content, k + 1)

\* the same with the keyword scan ahead of the test of line 280
infer_family_keywords_first(normalized_content) ==
    IF keyword_scan(normalized_content, 1) # None
    THEN keyword_scan(normalized_content, 1)
    ELSE IF str_contains(normalized_content, Rp2Marker)
    THEN <<"r", "p", "2">>
    ELSE None

\* lines 280-288
infer_family(normalized_content) ==
    IF str_contains(normalized_content, Rp2Marker)
    THEN <<"r", "p", "2">>
    ELSE keyword_scan(normalized_content, 1)

\* get_win_volume_name(path) of thonny.misc_utils: the volume's label
VolumeLabel(path) == <<"U", "F", "2">>

\* _describe_target_path(path); label_ok tells whether the label lookup succeeds
_describe_target_path(path, is_win32, label_ok) ==
    IF is_win32
    THEN IF label_ok
         THEN VolumeLabel(path) \o <<" ", "(">> \o str_strip(path, "\\") \o <<")">>
         ELSE path
    ELSE path

\* _create_target_info(path), info_content being the text read from
\* <path>/INFO_UF2.TXT
_create_target_info(path, info_content, is_win32, label_ok) ==
    LET info_lines == str_splitlines(info_content)
    IN  [title    |-> _describe_target_path(path, is_win32, label_ok),
         path     |-> path,
         family   |-> infer_family(normalize_content(info_content)),
         model    |-> find_uf2_property(info_lines, <<"M", "o", "d", "e", "l">>),
         board_id |-> find_uf2_property(info_lines,
                         <<"B", "o", "a", "r", "d", "-", "I", "D">>)]

(***************************************************************************)
(* Target matcher                                                          *)
(***************************************************************************)

\* the bullet character of line 231
Bullet == "U+2022"

\* variant.get("title", variant["model"]): an absent title is held as None
variant_title_or_model(variant) ==
    IF variant.title = None THEN variant.model ELSE variant.title

_create_variant_description(variant) ==
    variant.vendor \o <<" ", Bullet, " ">> \o variant_title_or_model(variant)

_extract_normalized_words(text) ==
    SeqToSet(str_split(str_lower(str_replace(str_replace(text, "_", <<" ">>),
                                             "-", <<>>))))

\* the same without the second comparison of lines 248-252
meant_for_target_no_vendor(variant, target) ==
    IF target.family = None THEN FALSE
    ELSE IF ~str_startswith(variant.family, target.family) THEN FALSE
    ELSE IF target.model = None THEN FALSE
    ELSE _extract_normalized_words(target.model)
            = _extract_normalized_words(variant.model)

_variant_is_meant_for_target(variant, target) ==
    IF target.family = None THEN FALSE
    ELSE IF ~str_startswith(variant.family, target.family) THEN FALSE
    ELSE IF target.model = None THEN FALSE
    ELSE \/ _extract_normalized_words(target.model)
              = _extract_normalized_words(variant.model)
         \/ _extract_normalized_words(target.model \o <<" ">> \o variant.vendor)
              = _extract_normalized_words(variant.model \o <<" ">> \o variant.vendor)

\* lines 195-206: the mapping description -> variant shown for a target
whole_mapping(variants) ==
    dict_from([i \in DOMAIN variants |->
                  <<_create_variant_description(variants[i]), variants[i]>>], <<>>)

\* the same without the fallback of lines 203-204
filtered_mapping_no_fallback(variants, target) ==
    LET whole == whole_mapping(variants)
    IN  IF target.family # None
        THEN SelectSeq(whole, LAMBDA item : str_startswith(item[2].family, target.family))
        ELSE whole

filtered_mapping(variants, target) ==
    LET whole == whole_mapping(variants)
        kept  == SelectSeq(whole, LAMBDA item : str_startswith(item[2].family, target.family))
    IN  IF target.family # None
        THEN (IF kept = <<>> THEN whole ELSE kept)
        ELSE whole

\* line 223
versions_mapping(variant) ==
    dict_from([i \in DOMAIN variant.downloads |->
                  <<variant.downloads[i].version, variant.downloads[i].url>>], <<>>)

(***************************************************************************)
(* MappingCombobox (thonny.ui_utils): a mapping description -> value and   *)
(* the description text the widget shows.  The selected value is looked up *)
(* from the shown description in the current mapping.                      *)
(***************************************************************************)

EmptyCombo == [mapping |-> <<>>, desc |-> {}]

combo_set_mapping(combo, mapping) == [combo EXCEPT !.mapping = mapping]

combo_select_none(combo) == [combo EXCEPT !.desc = {}]

\* the first description whose value is the given one becomes the shown text
combo_select_value(combo, value) ==
    LET hits == {i \in DOMAIN combo.mapping : combo.mapping[i][2] = value}
    IN  IF hits = {} THEN combo
        ELSE [combo EXCEPT !.desc =
                 {combo.mapping[CHOOSE i \in hits : \A j \in hits : i <= j][1]}]

\* {} for None, {value} for a selected value
combo_get_selected_value(combo) ==
    {combo.mapping[i][2] : i \in {j \in DOMAIN combo.mapping : combo.mapping[j][1] \in combo.desc}}

(***************************************************************************)
(* The environment: candidate volumes and the catalogs the URL may serve   *)
(***************************************************************************)

\* number of volumes that may carry an INFO_UF2.TXT
MaxVolumes == 2

Volumes == 1..MaxVolumes

VolumePath(vol) ==
    <<CASE vol = 1 -> "E" [] vol = 2 -> "F" [] vol = 3 -> "G" [] OTHER -> "H", ":", "\\">>

\* the text of <volume>/INFO_UF2.TXT
VolumeContent(vol) ==
    CASE vol = 1 ->
         <<"S", "A", "M", "D", "2", "1", " ", "v", "1", "\n",
           "M", "o", "d", "e", "l", ":", " ", "B", "\n">>
      [] vol = 2 ->
         <<"M", "o", "d", "e", "l", ":", " ", "B", "\n">>
      [] vol = 3 ->
         <<"M", "o", "d", "e", "l", ":", " ", "R", "a", "s", "p", "b", "e", "r", "r", "y",
           " ", "P", "i", " ", "R", "P", "2", "\n",
           "B", "o", "a", "r", "d", "-", "I", "D", ":", " ", "R", "P", "I", "-", "R", "P", "2", "\n">>
      [] OTHER ->
         <<"B", "o", "a", "r", "d", "-", "I", "D", ":", " ", "x", "\n">>

Vx == <<"V", "x">>
Vy == <<"V", "y">>

\* catalog entries (the JSON objects of the network contract)
VariantA ==
    [vendor |-> Vx, model |-> <<"V", "x", " ", "B">>, family |-> <<"s", "a", "m", "d", "2", "1">>,
     title |-> None, info_url |-> "uA",
     downloads |-> <<[version |-> "1.0", url |-> "a"], [version |-> "1.1", url |-> "b"]>>]

VariantB ==
    [vendor |-> Vy, model |-> <<"b">>, family |-> <<"s", "a", "m", "d", "2", "1", "e">>,
     title |-> None, info_url |-> "uB",
     downloads |-> <<>>]

VariantC ==
    [vendor |-> Vx, model |-> <<"C">>, family |-> <<"r", "p", "2">>,
     title |-> <<"V", "x", " ", "B">>, info_url |-> "uC",
     downloads |-> <<[version |-> "1.0", url |-> "c"], [version |-> "1.0", url |-> "d"]>>]

VariantD ==
    [vendor |-> Vy,
     model |-> <<"R", "P", "2", "_", "r", "a", "s", "p", "b", "e", "r", "r", "y", " ", "P", "I">>,
     family |-> <<"r", "p", "2">>,
     title |-> <<"P", "i", "c", "o">>, info_url |-> "uD",
     downloads |-> <<[version |-> "2.0", url |-> "e"]>>]

VariantE ==
    [vendor |-> Vy, model |-> <<"Z">>, family |-> <<"s", "a", "m", "d", "2", "1", "e">>,
     title |-> None, info_url |-> "uE",
     downloads |-> <<[version |-> "3.0", url |-> "f"]>>]

\* what json.loads(json_str) may return
Catalogs ==
    { <<>>,
      <<VariantA, VariantB, VariantD>>,
      <<VariantA, VariantE, VariantD>>,
      <<VariantA, VariantD, VariantC>> }

AllVariants == UNION {SeqToSet(catalog) : catalog \in Catalogs}

(***************************************************************************)
(* The functions above tabulated over the environment, so that each is     *)
(* computed once per argument                                              *)
(***************************************************************************)

TargetInfoOf ==
    [vol \in Volumes, is_win32 \in BOOLEAN, label_ok \in BOOLEAN |->
        _create_target_info(VolumePath(vol), VolumeContent(vol), is_win32, label_ok)]

AllTargets ==
    {TargetInfoOf[vol, is_win32, label_ok] :
        vol \in Volumes, is_win32 \in BOOLEAN, label_ok \in BOOLEAN}

MeantForTarget ==
    [variant \in AllVariants, target \in AllTargets |->
        _variant_is_meant_for_target(variant, target)]

FilteredMappingOf ==
    [catalog \in Catalogs, target \in AllTargets |-> filtered_mapping(catalog, target)]

VersionsMappingOf ==
    [variant \in AllVariants |-> versions_mapping(variant)]

(***************************************************************************)
(* State                                                                   *)
(***************************************************************************)

VARIABLES
    mainPc,                 \* where BaseFlasher.__init__ is: "init", "super_init", "ready"
    dlPc,                   \* the _download_variants thread
    fetches,                \* number of threads started on _download_variants
    win32,                  \* sys.platform == "win32"
    volumes,                \* the volumes that carry an INFO_UF2.TXT now
    _state,                 \* WorkDialog._state
    _downloaded_variants,
    _last_handled_target,
    _last_handled_variant,
    _target_combo,
    _variant_combo,
    _version_combo,
    _target_info,           \* _target_info_content_label and _target_info_label
    _variant_info,          \* _variant_info_content_label: text and url
    log_text,               \* the lines appended with append_text
    action_text,            \* set_action_text
    progress_gridded,       \* grid_progress_widgets
    last,                   \* what the last step was and what it did
    fn                      \* call record of the function specification

vars ==
    <<mainPc, dlPc, fetches, win32, volumes, _state, _downloaded_variants,
      _last_handled_target, _last_handled_variant, _target_combo, _variant_combo,
      _version_combo, _target_info, _variant_info, log_text, action_text,
      progress_gridded, last, fn>>

dialogVars ==
    <<mainPc, dlPc, fetches, win32, volumes, _state, _downloaded_variants,
      _last_handled_target, _last_handled_variant, _target_combo, _variant_combo,
      _version_combo, _target_info, _variant_info, log_text, action_text,
      progress_gridded, last>>

\* the record kept in last for a step that is no refresh (op is "other")
Step(op) ==
    [op |-> op, idle |-> FALSE, targets_changed |-> FALSE,
     handled_target |-> {}, prev_variant |-> {}, handled_variant |-> {},
     raced |-> FALSE, targets |-> <<>>, prev_version |-> {}]

NoCall == [kind |-> "none", arg |-> <<>>, result |-> <<>>, done |-> FALSE]

(***************************************************************************)
(* Selection controller                                                    *)
(***************************************************************************)

\* the present volumes whose metadata is read successfully, in scan order
RECURSIVE scan_from(_, _, _)
scan_from(vol, present, read_fails) ==
    IF vol > MaxVolumes THEN <<>>
    ELSE (IF vol \in present /\ vol \notin read_fails THEN <<vol>> ELSE <<>>)
         \o scan_from(vol + 1, present, read_fails)

\* the same with the scan ending at the first volume that fails
find_targets_abort(present, read_fails, label_ok, is_win32) ==
    LET paths == scan_from(1, {v \in present : \A f \in read_fails \cap present : v < f}, {})
        info(vol) == TargetInfoOf[vol, is_win32, label_ok]
    IN  dict_from([i \in DOMAIN paths |-> <<info(paths[i]).title, info(paths[i])>>], <<>>)

\* find_targets(); read_fails are the volumes whose _create_target_info raises,
\* label_ok tells whether the label lookups of this scan succeed
find_targets(present, read_fails, label_ok, is_win32) ==
    LET paths == scan_from(1, present, read_fails)
        info(vol) == TargetInfoOf[vol, is_win32, label_ok]
    IN  dict_from([i \in DOMAIN paths |-> <<info(paths[i]).title, info(paths[i])>>], <<>>)

show_new_targets(combo, targets) ==
    LET shown == combo_set_mapping(combo, targets)
    IN  IF Len(targets) = 1
        THEN combo_select_value(shown, dict_values(targets)[1])
        ELSE combo_select_none(shown)

StrText(s) == [kind |-> "str", str |-> s, n |-> 0]
Message(kind, n) == [kind |-> kind, str |-> <<>>, n |-> n]

\* the same without the special case of lines 146-149
update_target_info_no_relabel(target_combo) ==
    LET selected == combo_get_selected_value(target_combo)
        current_target == CHOOSE t \in selected : TRUE
    IN  IF selected # {}
        THEN IF current_target.model # None /\ current_target.model # <<>>
             THEN [text |-> StrText(current_target.model), label |-> "model"]
             ELSE IF current_target.board_id # None /\ current_target.board_id # <<>>
             THEN [text |-> StrText(current_target.board_id), label |-> "board id"]
             ELSE IF current_target.family # None /\ current_target.family # <<>>
             THEN [text |-> StrText(current_target.family), label |-> "family"]
             ELSE [text |-> StrText(<<"U", "n", "k", "n", "o", "w", "n", " ",
                                      "b", "o", "a", "r", "d">>), label |-> "info"]
        ELSE IF target_combo.mapping = <<>>
        THEN [text |-> Message("[no suitable targets detected]", 0), label |-> ""]
        ELSE [text |-> Message("[found {n} targets, please select one]",
                               Len(target_combo.mapping)), label |-> ""]

_update_target_info(target_combo) ==
    LET selected == combo_get_selected_value(target_combo)
        current_target == CHOOSE t \in selected : TRUE
    IN  IF selected # {}
        THEN IF current_target.model # None /\ current_target.model # <<>>
             THEN IF current_target.model
                       = <<"R", "a", "s", "p", "b", "e", "r", "r", "y", " ", "P", "i", " ",
                           "R", "P", "2">>
                  THEN [text |-> StrText(<<"R", "P", "2">>), label |-> "family"]
                  ELSE [text |-> StrText(current_target.model), label |-> "model"]
             ELSE IF current_target.board_id # None /\ current_target.board_id # <<>>
             THEN [text |-> StrText(current_target.board_id), label |-> "board id"]
             ELSE IF current_target.family # None /\ current_target.family # <<>>
             THEN [text |-> StrText(current_target.family), label |-> "family"]
             ELSE [text |-> StrText(<<"U", "n", "k", "n", "o", "w", "n", " ",
                                      "b", "o", "a", "r", "d">>), label |-> "info"]
        ELSE IF target_combo.mapping = <<>>
        THEN [text |-> Message("[no suitable targets detected]", 0), label |-> ""]
        ELSE [text |-> Message("[found {n} targets, please select one]",
                               Len(target_combo.mapping)), label |-> ""]

_update_variant_info(variant_combo, downloaded_variants) ==
    LET selected == combo_get_selected_value(variant_combo)
    IN  IF downloaded_variants = <<>>
        THEN [text |-> Message("[downloading variants info ...]", 0), url |-> {}]
        ELSE IF selected # {}
        THEN [text |-> Message("{info_url}", 0),
              url |-> {(CHOOSE v \in selected : TRUE).info_url}]
        ELSE IF variant_combo.mapping # <<>>
        THEN [text |-> Message("[select one from {n} variants]",
                               Len(variant_combo.mapping)), url |-> {}]
        ELSE [text |-> Message("", 0), url |-> {}]

\* lines 211-215
matches(mapping, target) ==
    SelectSeq(dict_values(mapping), LAMBDA v : MeantForTarget[v, target])

\* the same keeping the previous selection ahead of a single exact match
handle_new_target_keep_prev(variant_combo, downloaded_variants, target) ==
    LET filtered == FilteredMappingOf[downloaded_variants, target]
        prev_variant == combo_get_selected_value(variant_combo)
        shown == combo_set_mapping(variant_combo, filtered)
        found == matches(filtered, target)
    IN  IF prev_variant # {} /\ prev_variant \subseteq SeqToSet(dict_values(filtered))
        THEN combo_select_value(shown, CHOOSE v \in prev_variant : TRUE)
        ELSE IF Len(found) = 1
        THEN combo_select_value(shown, found[1])
        ELSE shown

\* the same without lines 219-220
handle_new_target_drop_prev(variant_combo, downloaded_variants, target) ==
    LET filtered == FilteredMappingOf[downloaded_variants, target]
        shown == combo_set_mapping(variant_combo, filtered)
        found == matches(filtered, target)
    IN  IF Len(found) = 1
        THEN combo_select_value(shown, found[1])
        ELSE combo_select_none(shown)

_handle_new_target(variant_combo, downloaded_variants, target) ==
    LET filtered == FilteredMappingOf[downloaded_variants, target]
        prev_variant == combo_get_selected_value(variant_combo)
        shown == combo_set_mapping(variant_combo, filtered)
        found == matches(filtered, target)
    IN  IF Len(found) = 1
        THEN combo_select_value(shown, found[1])
        ELSE IF prev_variant # {} /\ prev_variant \subseteq SeqToSet(dict_values(filtered))
        THEN combo_select_value(shown, CHOOSE v \in prev_variant : TRUE)
        ELSE shown

\* the same selecting the last version of the list
handle_new_variant_select_last(version_combo, variant) ==
    LET mapping == VersionsMappingOf[variant]
        shown == combo_set_mapping(version_combo, mapping)
    IN  IF Len(mapping) > 0
        THEN combo_select_value(shown, dict_values(mapping)[Len(mapping)])
        ELSE combo_select_none(shown)

_handle_new_variant(version_combo, variant) ==
    LET mapping == VersionsMappingOf[variant]
        shown == combo_set_mapping(version_combo, mapping)
    IN  IF Len(mapping) > 0
        THEN combo_select_value(shown, dict_values(mapping)[1])
        ELSE combo_select_none(shown)

\* the same without line 92
target_stage_keep_marker(target_combo, last_handled_target, targets) ==
    LET changed == ~dict_eq(targets, target_combo.mapping)
    IN  [combo |-> IF changed THEN show_new_targets(target_combo, targets) ELSE target_combo,
         last_handled_target |-> last_handled_target,
         changed |-> changed]

\* lines 89-92: the scan result replaces a differing shown target set
target_stage(target_combo, last_handled_target, targets) ==
    LET changed == ~dict_eq(targets, target_combo.mapping)
    IN  [combo |-> IF changed THEN show_new_targets(target_combo, targets) ELSE target_combo,
         last_handled_target |-> IF changed THEN {} ELSE last_handled_target,
         changed |-> changed]

\* the same without line 100
variant_stage_keep_marker(variant_combo, last_handled_target, last_handled_variant, current_target, downloaded_variants) ==
    LET new_target == /\ current_target # {}
                      /\ current_target # last_handled_target
                      /\ downloaded_variants # <<>>
    IN  [combo |-> IF current_target = {}
                   THEN combo_select_none(combo_set_mapping(variant_combo, <<>>))
                   ELSE IF new_target
                   THEN _handle_new_target(variant_combo, downloaded_variants,
                                           CHOOSE t \in current_target : TRUE)
                   ELSE variant_combo,
         last_handled_target |-> IF new_target THEN current_target ELSE last_handled_target,
         last_handled_variant |-> last_handled_variant,
         handled |-> IF new_target THEN current_target ELSE {}]

\* the same remembering the target as handled while the catalog is still empty
variant_stage_mark_early(variant_combo, last_handled_target, last_handled_variant, current_target, downloaded_variants) ==
    LET new_target == current_target # {} /\ current_target # last_handled_target
        handle == new_target /\ downloaded_variants # <<>>
    IN  [combo |-> IF current_target = {}
                   THEN combo_select_none(combo_set_mapping(variant_combo, <<>>))
                   ELSE IF handle
                   THEN _handle_new_target(variant_combo, downloaded_variants,
                                           CHOOSE t \in current_target : TRUE)
                   ELSE variant_combo,
         last_handled_target |-> IF new_target THEN current_target ELSE last_handled_target,
         last_handled_variant |-> IF new_target THEN {} ELSE last_handled_variant,
         handled |-> IF handle THEN current_target ELSE {}]

\* the same re-filtering only while the variant list is empty
variant_stage_no_refilter(variant_combo, last_handled_target, last_handled_variant, current_target, downloaded_variants) ==
    LET new_target == /\ current_target # {}
                      /\ variant_combo.mapping = <<>>
                      /\ downloaded_variants # <<>>
    IN  [combo |-> IF current_target = {}
                   THEN combo_select_none(combo_set_mapping(variant_combo, <<>>))
                   ELSE IF new_target
                   THEN _handle_new_target(variant_combo, downloaded_variants,
                                           CHOOSE t \in current_target : TRUE)
                   ELSE variant_combo,
         last_handled_target |-> IF new_target THEN current_target ELSE last_handled_target,
         last_handled_variant |-> IF new_target THEN {} ELSE last_handled_variant,
         handled |-> IF new_target THEN current_target ELSE {}]

\* lines 94-101
variant_stage(variant_combo, last_handled_target, last_handled_variant, current_target, downloaded_variants) ==
    LET new_target == /\ current_target # {}
                      /\ current_target # last_handled_target
                      /\ downloaded_variants # <<>>
    IN  [combo |-> IF current_target = {}
                   THEN combo_select_none(combo_set_mapping(variant_combo, <<>>))
                   ELSE IF new_target
                   THEN _handle_new_target(variant_combo, downloaded_variants,
                                           CHOOSE t \in current_target : TRUE)
                   ELSE variant_combo,
         last_handled_target |-> IF new_target THEN current_target ELSE last_handled_target,
         last_handled_variant |-> IF new_target THEN {} ELSE last_handled_variant,
         handled |-> IF new_target THEN current_target ELSE {}]

\* the same without line 107
version_stage_keep_list(version_combo, last_handled_variant, current_variant) ==
    LET new_variant == current_variant # {} /\ current_variant # last_handled_variant
    IN  [combo |-> IF current_variant = {}
                   THEN combo_select_none(version_combo)
                   ELSE IF new_variant
                   THEN _handle_new_variant(version_combo, CHOOSE v \in current_variant : TRUE)
                   ELSE version_combo,
         last_handled_variant |-> IF new_variant THEN current_variant ELSE last_handled_variant,
         handled |-> IF new_variant THEN current_variant ELSE {}]

\* lines 104-110
version_stage(version_combo, last_handled_variant, current_variant) ==
    LET new_variant == current_variant # {} /\ current_variant # last_handled_variant
    IN  [combo |-> IF current_variant = {}
                   THEN combo_set_mapping(combo_select_none(version_combo), <<>>)
                   ELSE IF new_variant
                   THEN _handle_new_variant(version_combo, CHOOSE v \in current_variant : TRUE)
                   ELSE version_combo,
         last_handled_variant |-> IF new_variant THEN current_variant ELSE last_handled_variant,
         handled |-> IF new_variant THEN current_variant ELSE {}]

\* the same with the version list refreshed from the variant selected when the
\* refresh starts, ahead of lines 94-101
refresh_idle_versions_first(sel, targets, downloaded_variants) ==
    LET t == target_stage(sel.target_combo, sel.last_handled_target, targets)
        w == version_stage(sel.version_combo, sel.last_handled_variant,
                           combo_get_selected_value(sel.variant_combo))
        v == variant_stage(sel.variant_combo, t.last_handled_target, w.last_handled_variant,
                           combo_get_selected_value(t.combo), downloaded_variants)
    IN  [target_combo |-> t.combo, variant_combo |-> v.combo, version_combo |-> w.combo,
         last_handled_target |-> v.last_handled_target,
         last_handled_variant |-> v.last_handled_variant,
         targets_changed |-> t.changed, handled_target |-> v.handled,
         handled_variant |-> w.handled]

\* lines 88-111, the selection part of update_ui in the "idle" state: sel holds
\* the three comboboxes and the two markers, targets is what find_targets()
\* returned, downloaded_variants the catalog as line 98 reads it
refresh_idle(sel, targets, downloaded_variants) ==
    LET t == target_stage(sel.target_combo, sel.last_handled_target, targets)
        v == variant_stage(sel.variant_combo, t.last_handled_target, sel.last_handled_variant,
                           combo_get_selected_value(t.combo), downloaded_variants)
        w == version_stage(sel.version_combo, v.last_handled_variant,
                           combo_get_selected_value(v.combo))
    IN  [target_combo |-> t.combo, variant_combo |-> v.combo, version_combo |-> w.combo,
         last_handled_target |-> v.last_handled_target,
         last_handled_variant |-> w.last_handled_variant,
         targets_changed |-> t.changed, handled_target |-> v.handled,
         handled_variant |-> w.handled]

Selections ==
    [target_combo |-> _target_combo, variant_combo |-> _variant_combo,
     version_combo |-> _version_combo, last_handled_target |-> _last_handled_target,
     last_handled_variant |-> _last_handled_variant]

(***************************************************************************)
(* Actions                                                                 *)
(***************************************************************************)

\* lines 35-38: the fields set before the thread is started; the widgets of
\* populate_main_frame start with an empty mapping and no text
DialogInit ==
    /\ mainPc = "init"
    /\ dlPc = "not_started"
    /\ fetches = 0
    /\ win32 \in BOOLEAN
    /\ volumes = {}
    /\ _state = "idle"
    /\ _downloaded_variants = <<>>
    /\ _last_handled_target = {}
    /\ _last_handled_variant = {}
    /\ _target_combo = EmptyCombo
    /\ _variant_combo = EmptyCombo
    /\ _version_combo = EmptyCombo
    /\ _target_info = [text |-> Message("", 0), label |-> "model"]
    /\ _variant_info = [text |-> Message("", 0), url |-> {}]
    /\ log_text = <<>>
    /\ action_text = ""
    /\ progress_gridded = FALSE
    /\ last = Step("other")

Init == DialogInit /\ fn = NoCall

\* line 40
StartFetch ==
    /\ mainPc = "init"
    /\ mainPc' = "super_init"
    /\ dlPc' = "fetching"
    /\ fetches' = fetches + 1
    /\ last' = Step("other")
    /\ UNCHANGED <<win32, volumes, _state, _downloaded_variants, _last_handled_target,
                   _last_handled_variant, _target_combo, _variant_combo, _version_combo,
                   _target_info, _variant_info, log_text, action_text, progress_gridded, fn>>

\* line 42: WorkDialog.__init__ builds the dialog; update_ui runs from then on
SuperInit ==
    /\ mainPc = "super_init"
    /\ mainPc' = "ready"
    /\ last' = Step("other")
    /\ UNCHANGED <<dlPc, fetches, win32, volumes, _state, _downloaded_variants,
                   _last_handled_target, _last_handled_variant, _target_combo,
                   _variant_combo, _version_combo, _target_info, _variant_info,
                   log_text, action_text, progress_gridded, fn>>

\* a board is plugged in or put into bootloader mode
VolumeAppears(vol) ==
    /\ vol \notin volumes
    /\ volumes' = volumes \cup {vol}
    /\ last' = Step("other")
    /\ UNCHANGED <<mainPc, dlPc, fetches, win32, _state, _downloaded_variants,
                   _last_handled_target, _last_handled_variant, _target_combo,
                   _variant_combo, _version_combo, _target_info, _variant_info,
                   log_text, action_text, progress_gridded, fn>>

VolumeDisappears(vol) ==
    /\ vol \in volumes
    /\ volumes' = volumes \ {vol}
    /\ last' = Step("other")
    /\ UNCHANGED <<mainPc, dlPc, fetches, win32, _state, _downloaded_variants,
                   _last_handled_target, _last_handled_variant, _target_combo,
                   _variant_combo, _version_combo, _target_info, _variant_info,
                   log_text, action_text, progress_gridded, fn>>

\* the user picks an entry of a combobox
UserSelectTarget(desc) ==
    /\ mainPc = "ready"
    /\ desc \in dict_keys(_target_combo.mapping)
    /\ _target_combo' = [_target_combo EXCEPT !.desc = {desc}]
    /\ last' = Step("other")
    /\ UNCHANGED <<mainPc, dlPc, fetches, win32, volumes, _state, _downloaded_variants,
                   _last_handled_target, _last_handled_variant, _variant_combo,
                   _version_combo, _target_info, _variant_info, log_text, action_text,
                   progress_gridded, fn>>

UserSelectVariant(desc) ==
    /\ mainPc = "ready"
    /\ desc \in dict_keys(_variant_combo.mapping)
    /\ _variant_combo' = [_variant_combo EXCEPT !.desc = {desc}]
    /\ last' = Step("other")
    /\ UNCHANGED <<mainPc, dlPc, fetches, win32, volumes, _state, _downloaded_variants,
                   _last_handled_target, _last_handled_variant, _target_combo,
                   _version_combo, _target_info, _variant_info, log_text, action_text,
                   progress_gridded, fn>>

UserSelectVersion(desc) ==
    /\ mainPc = "ready"
    /\ desc \in dict_keys(_version_combo.mapping)
    /\ _version_combo' = [_version_combo EXCEPT !.desc = {desc}]
    /\ last' = Step("other")
    /\ UNCHANGED <<mainPc, dlPc, fetches, win32, volumes, _state, _downloaded_variants,
                   _last_handled_target, _last_handled_variant, _target_combo,
                   _variant_combo, _target_info, _variant_info, log_text, action_text,
                   progress_gridded, fn>>

\* WorkDialog: the work is started and the dialog leaves "idle"
StartWork ==
    /\ mainPc = "ready"
    /\ _state = "idle"
    /\ _state' = "working"
    /\ last' = Step("other")
    /\ UNCHANGED <<mainPc, dlPc, fetches, win32, volumes, _downloaded_variants,
                   _last_handled_target, _last_handled_variant, _target_combo,
                   _variant_combo, _version_combo, _target_info, _variant_info,
                   log_text, action_text, progress_gridded, fn>>

\* the same with the catalog stored while the thread goes on fetching
DownloadSuccessStillFetching(catalog) ==
    /\ dlPc = "fetching"
    /\ _downloaded_variants' = catalog
    /\ last' = Step("other")
    /\ UNCHANGED <<mainPc, dlPc, fetches, win32, volumes, _state, _last_handled_target,
                   _last_handled_variant, _target_combo, _variant_combo, _version_combo,
                   _target_info, _variant_info, log_text, action_text, progress_gridded, fn>>

\* lines 312-316: the fetch succeeds and the parsed JSON replaces the catalog
DownloadSuccess(catalog) ==
    /\ dlPc = "fetching"
    /\ _downloaded_variants' = catalog
    /\ dlPc' = "done"
    /\ last' = Step("other")
    /\ UNCHANGED <<mainPc, fetches, win32, volumes, _state, _last_handled_target,
                   _last_handled_variant, _target_combo, _variant_combo, _version_combo,
                   _target_info, _variant_info, log_text, action_text, progress_gridded, fn>>

\* lines 317-322: the fetch raises.  The three dialog calls act on a dialog
\* whose base initialisation (line 42) may not have run yet; then they either
\* take effect or raise in the thread, which ends it.
DownloadFailure(reported) ==
    /\ dlPc = "fetching"
    /\ mainPc = "ready" => reported
    /\ IF reported
       THEN /\ log_text' = Append(log_text, "Could not download variants info from {url}\n")
            /\ action_text' = "Error!"
            /\ progress_gridded' = TRUE
            /\ dlPc' = "failed"
       ELSE /\ dlPc' = "died"
            /\ UNCHANGED <<log_text, action_text, progress_gridded>>
    /\ last' = Step("other")
    /\ UNCHANGED <<mainPc, fetches, win32, volumes, _state, _downloaded_variants,
                   _last_handled_target, _last_handled_variant, _target_combo,
                   _variant_combo, _version_combo, _target_info, _variant_info, fn>>

\* update_ui().  read_fails are the volumes whose metadata read raises during
\* the scan, label_ok tells whether the label lookups of the scan succeed.
\* raced is {} or {catalog}: the catalog the fetch thread stores at line 315
\* while this refresh is between its read of line 98 and its read of line 176.
\* the same taking every state for the "idle" state
is_idle_always(state) == TRUE

\* line 88
is_idle(state) == state = "idle"

update_ui(read_fails, label_ok, raced) ==
    /\ mainPc = "ready"
    /\ ~win32 => label_ok
    /\ raced # {} => dlPc = "fetching"
    /\ LET idle == is_idle(_state)
           targets == find_targets(volumes, read_fails, label_ok, win32)
           after == refresh_idle(Selections, targets, _downloaded_variants)
           \* line 176 reads the catalog again
           catalog176 == IF raced = {} THEN _downloaded_variants
                         ELSE CHOOSE c \in raced : TRUE
       IN  /\ IF idle
              THEN /\ _target_combo' = after.target_combo
                   /\ _last_handled_target' = after.last_handled_target
                   /\ _variant_combo' = after.variant_combo
                   /\ _target_info' = _update_target_info(after.target_combo)
                   /\ _version_combo' = after.version_combo
                   /\ _last_handled_variant' = after.last_handled_variant
                   /\ _variant_info' = _update_variant_info(after.variant_combo, catalog176)
              ELSE UNCHANGED <<_target_combo, _last_handled_target, _variant_combo,
                               _target_info, _version_combo, _last_handled_variant,
                               _variant_info>>
           /\ _downloaded_variants' = catalog176
           /\ dlPc' = IF raced = {} THEN dlPc ELSE "done"
           /\ last' = [op |-> "update_ui", idle |-> idle,
                       targets_changed |-> idle /\ after.targets_changed,
                       handled_target |-> IF idle THEN after.handled_target ELSE {},
                       prev_variant |-> IF idle /\ after.handled_target # {}
                                        THEN combo_get_selected_value(_variant_combo) ELSE {},
                       handled_variant |-> IF idle THEN after.handled_variant ELSE {},
                       raced |-> raced # {},
                       targets |-> IF idle THEN targets ELSE <<>>,
                       prev_version |-> IF idle /\ after.handled_target # {}
                                        THEN combo_get_selected_value(_version_combo) ELSE {}]
    /\ UNCHANGED <<mainPc, fetches, win32, volumes, _state, log_text, action_text,
                   progress_gridded, fn>>

Next ==
    \/ StartFetch
    \/ SuperInit
    \/ \E vol \in Volumes : VolumeAppears(vol)
    \/ \E vol \in Volumes : VolumeDisappears(vol)
    \/ \E desc \in dict_keys(_target_combo.mapping) : UserSelectTarget(desc)
    \/ \E desc \in dict_keys(_variant_combo.mapping) : UserSelectVariant(desc)
    \/ \E desc \in dict_keys(_version_combo.mapping) : UserSelectVersion(desc)
    \/ StartWork
    \/ \E catalog \in Catalogs : DownloadSuccess(catalog)
    \/ \E reported \in BOOLEAN : DownloadFailure(reported)
    \/ \E read_fails \in SUBSET volumes, label_ok \in BOOLEAN,
          raced \in {{}} \cup {{c} : c \in Catalogs} :
            update_ui(read_fails, label_ok, raced)

Spec == Init /\ [][Next]_vars

\* a step of the periodic refresh; update_ui is the only action that leaves
\* "update_ui" in last.op
RefreshTick == last'.op = "update_ui"

\* the dialog schedules update_ui again after every run: refresh ticks keep
\* occurring
LiveSpec == Spec /\ []<><<RefreshTick>>_vars

(***************************************************************************)
(* Observations used by the properties below                               *)
(***************************************************************************)

\* the last step was a refresh that ran _handle_new_target / _handle_new_variant
JustHandledTarget == last.op = "update_ui" /\ last.handled_target # {}
JustHandledVariant == last.op = "update_ui" /\ last.handled_variant # {}

HandledTarget == CHOOSE t \in last.handled_target : TRUE
HandledVariant == CHOOSE v \in last.handled_variant : TRUE

ShownVariants == SeqToSet(dict_values(_variant_combo.mapping))
SelectedVariant == combo_get_selected_value(_variant_combo)
SelectedVersion == combo_get_selected_value(_version_combo)

\* the shown variants that pass the exact-match test for the handled target
ExactMatches == {v \in ShownVariants : MeantForTarget[v, HandledTarget]}

FetchCompleted == dlPc \in {"done", "failed", "died"}

(***************************************************************************)
(* Auto-select policy                                                      *)
(***************************************************************************)

\* C1: after a refresh that handled a newly selected target, if exactly one
\* shown variant passes the exact-match test for that target, then that
\* variant is the selected one, whatever was selected before.
C1_SingleExactMatchSelected ==
    (JustHandledTarget /\ Cardinality(ExactMatches) = 1)
        => SelectedVariant = ExactMatches

\* a different variant was selected before and the single match replaced it
C1_Witness ==
    /\ JustHandledTarget
    /\ Cardinality(ExactMatches) = 1
    /\ last.prev_variant # {}
    /\ last.prev_variant # ExactMatches
    /\ last.prev_variant \subseteq ShownVariants
    /\ SelectedVariant = ExactMatches

\* C2: after a refresh that handled a newly selected target, if the number of
\* exact matches is zero or more than one and the variant selected before
\* the re-filtering is among the shown variants, it is still the selected one.
C2_PreviousSelectionKept ==
    (/\ JustHandledTarget
     /\ Cardinality(ExactMatches) # 1
     /\ last.prev_variant # {}
     /\ last.prev_variant \subseteq ShownVariants)
        => SelectedVariant = last.prev_variant

\* several exact matches, and the earlier choice survived
C2_Witness ==
    /\ JustHandledTarget
    /\ Cardinality(ExactMatches) > 1
    /\ last.prev_variant # {}
    /\ last.prev_variant \subseteq ShownVariants
    /\ SelectedVariant = last.prev_variant

\* no exact match, and the earlier choice survived
C2_WitnessNoMatch ==
    /\ JustHandledTarget
    /\ Cardinality(ExactMatches) = 0
    /\ last.prev_variant # {}
    /\ SelectedVariant = last.prev_variant

(***************************************************************************)
(* Idempotence of the refresh                                              *)
(***************************************************************************)

\* C3 as stated: a refresh that directly follows a refresh, with the same
\* scan result and the catalog as the first refresh left it, changes none of
\* the three lists and none of the three selections.
C3_RefreshIdempotentAsStated ==
    [][(/\ last.op = "update_ui"
        /\ last'.op = "update_ui"
        /\ ~last'.targets_changed
        /\ _downloaded_variants' = _downloaded_variants)
            => UNCHANGED <<_target_combo, _variant_combo, _version_combo>>]_vars

\* C3 (amended): a refresh that directly follows a refresh, with the same
\* scan result, changes none of the three lists and none of the three
\* selections, provided the fetch thread did not store the catalog while the
\* first of the two refreshes was running.
C3_RefreshIdempotent ==
    [][(/\ last.op = "update_ui" /\ ~last.raced
        /\ last'.op = "update_ui"
        /\ ~last'.targets_changed)
            => UNCHANGED <<_target_combo, _variant_combo, _version_combo>>]_vars

\* a refresh that selected a target, a variant and a version, followed by a
\* second refresh that handled nothing
C3_Witness ==
    /\ last.op = "update_ui" /\ last.idle /\ ~last.raced
    /\ last.handled_target = {} /\ last.handled_variant = {}
    /\ ~last.targets_changed
    /\ _last_handled_target # {}
    /\ _last_handled_variant # {}
    /\ SelectedVersion # {}

(***************************************************************************)
(* The filtered variant set                                                *)
(***************************************************************************)

WithFamilyPrefix(variantSet, target) ==
    {v \in variantSet : str_startswith(v.family, target.family)}

\* the set the filter rule yields on a set of variants
ExpectedShown(variantSet, target) ==
    IF target.family = None THEN variantSet
    ELSE IF WithFamilyPrefix(variantSet, target) = {} THEN variantSet
    ELSE WithFamilyPrefix(variantSet, target)

\* of the variants that share a description, the last one of the catalog
LastPerDescription(catalog) ==
    {catalog[i] : i \in {j \in DOMAIN catalog :
        \A k \in DOMAIN catalog :
            k > j => _create_variant_description(catalog[k])
                        # _create_variant_description(catalog[j])}}

\* C4 as stated: the shown set is the filter rule applied to the whole catalog
C4_ShownIsFilterOfCatalog ==
    JustHandledTarget
        => ShownVariants = ExpectedShown(SeqToSet(_downloaded_variants), HandledTarget)

\* C4 (amended): after a refresh that handled a target, the shown variant set
\* is the filter rule applied to the catalog with, for each description, only
\* its last variant kept; it is never empty.
C4_ShownIsFilterOfDistinctDescriptions ==
    JustHandledTarget
        => /\ ShownVariants
                = ExpectedShown(LastPerDescription(_downloaded_variants), HandledTarget)
           /\ ShownVariants # {}

\* a target whose family no shown variant has (the fallback), on a catalog
\* that loses a variant to a repeated description
C4_Witness ==
    /\ JustHandledTarget
    /\ HandledTarget.family # None
    /\ WithFamilyPrefix(ShownVariants, HandledTarget) = {}
    /\ Cardinality(ShownVariants) < Cardinality(SeqToSet(_downloaded_variants))

\* a target with a family that narrows the catalog
C4_WitnessNarrowed ==
    /\ JustHandledTarget
    /\ HandledTarget.family # None
    /\ ShownVariants = WithFamilyPrefix(SeqToSet(_downloaded_variants), HandledTarget)
    /\ ShownVariants # SeqToSet(_downloaded_variants)

(***************************************************************************)
(* The version list                                                        *)
(***************************************************************************)

DownloadPairs(variant) ==
    [i \in DOMAIN variant.downloads |->
        <<variant.downloads[i].version, variant.downloads[i].url>>]

\* one entry per version string, at the place of its first download and with
\* the URL of its last download
DistinctVersionPairs(variant) ==
    LET d == variant.downloads
        firsts == SelectSeq([i \in DOMAIN d |-> i],
                            LAMBDA i : \A j \in 1..(i - 1) : d[j].version # d[i].version)
        lastOf(i) == CHOOSE j \in DOMAIN d :
                        /\ d[j].version = d[i].version
                        /\ \A k \in DOMAIN d : d[k].version = d[i].version => k <= j
    IN  [n \in DOMAIN firsts |-> <<d[firsts[n]].version, d[lastOf(firsts[n])].url>>]

\* C6 as stated: one entry per download, and the first download's URL selected
C6_VersionListIsDownloads ==
    JustHandledVariant
        => IF HandledVariant.downloads # <<>>
           THEN /\ _version_combo.mapping = DownloadPairs(HandledVariant)
                /\ SelectedVersion = {HandledVariant.downloads[1].url}
           ELSE /\ _version_combo.mapping = <<>>
                /\ SelectedVersion = {}

\* C6 (amended): after a refresh that handled a variant, the version list
\* holds one entry per distinct version string, in the order of first
\* occurrence and with the URL of the last download of that version, and the
\* selected version is the URL of the first entry; with no downloads the list
\* is empty and no version is selected.
C6_VersionListIsDistinctVersions ==
    JustHandledVariant
        => IF HandledVariant.downloads # <<>>
           THEN /\ _version_combo.mapping = DistinctVersionPairs(HandledVariant)
                /\ SelectedVersion = {DistinctVersionPairs(HandledVariant)[1][2]}
           ELSE /\ _version_combo.mapping = <<>>
                /\ SelectedVersion = {}

\* a variant with several downloads of distinct versions was handled
C6_Witness ==
    /\ JustHandledVariant
    /\ Len(HandledVariant.downloads) > 1
    /\ _version_combo.mapping = DownloadPairs(HandledVariant)
    /\ SelectedVersion = {HandledVariant.downloads[1].url}

\* a variant without downloads was handled
C6_WitnessNoDownloads ==
    /\ JustHandledVariant
    /\ HandledVariant.downloads = <<>>
    /\ SelectedVersion = {}

(***************************************************************************)
(* The catalog fetch                                                       *)
(***************************************************************************)

\* C7: a refresh that runs after the fetch has completed does not show the
\* downloading message.
C7_NoDownloadingMessageAfterFetch ==
    (last.op = "update_ui" /\ last.idle /\ ~last.raced /\ FetchCompleted)
        => _variant_info.text.kind # "[downloading variants info ...]"

\* C8: one fetch is started; the catalog is empty until the fetch completes,
\* changes only by the write of the completing fetch, and neither the
\* completion nor the catalog changes afterwards.
C8_CatalogWrittenOnce ==
    /\ [](/\ fetches <= 1
          /\ mainPc # "init" => fetches = 1
          /\ ~FetchCompleted => _downloaded_variants = <<>>)
    /\ [][FetchCompleted => (dlPc' = dlPc /\ _downloaded_variants' = _downloaded_variants)]_vars
    /\ [][_downloaded_variants' # _downloaded_variants
            => (dlPc = "fetching" /\ dlPc' = "done")]_vars

\* the catalog was stored and a refresh has handled a target with it
C8_Witness ==
    /\ dlPc = "done"
    /\ _downloaded_variants # <<>>
    /\ fetches = 1
    /\ JustHandledTarget

\* C9: once the fetch has failed, one error line is shown, the status is
\* "Error!", one fetch was started, the catalog and the variant list are
\* empty and no variant and no version is selected.
C9_FailureReportedAndFinal ==
    dlPc \in {"failed", "died"}
        => /\ Len(log_text) = 1
           /\ action_text = "Error!"
           /\ fetches = 1
           /\ _downloaded_variants = <<>>
           /\ _variant_combo.mapping = <<>>
           /\ SelectedVariant = {}
           /\ SelectedVersion = {}

(***************************************************************************)
(* The function specification: _variant_is_meant_for_target and            *)
(* _create_target_info applied to arguments drawn from bounded sets        *)
(***************************************************************************)

\* longest model text, in tokens, and longest file content, in fragments
MaxTokens == 3
MaxFragments == 3

ModelTokens == { <<"V", "x">>, <<"B">>, <<"b", "-">>, <<" ">>, <<"_">> }

ContentFragments ==
    { <<"B", "o", "a", "r", "d", "-", "I", "D", ":", " ", "R", "P", "I", "-", "R", "P", "2">>,
      <<"S", "A", "M", "D", "2", "1">>,
      <<"s", "a", "m", "d", "5", "1">>,
      <<"n", "R", "F", "5", "2">>,
      <<"n", "r", "f", "_", "5", "1">>,
      <<"E", "S", "P", "3", "2", "-", "S", "3">>,
      <<"S", "A", "M">>,
      <<"D", "2", "1">>,
      <<"\n">> }

\* the texts made of at most n pieces
RECURSIVE TextsOf(_, _)
TextsOf(pieces, n) ==
    IF n = 0 THEN { <<>> }
    ELSE LET shorter == TextsOf(pieces, n - 1)
         IN  shorter \cup {t \o piece : t \in shorter, piece \in pieces}

TargetModels == {None} \cup TextsOf(ModelTokens, MaxTokens)

VariantModels ==
    { <<"V", "x", " ", "B">>, <<"B">>, <<"B", "_", "V", "x">>,
      <<"V", "x", "-", "B">>, <<"v", "x", " ", " ", "b">> }

MatchArgs ==
    [target_family : {None, <<"r", "p", "2">>, <<"s", "a", "m", "d", "2", "1">>},
     target_model : TargetModels,
     variant_family : {<<"r", "p", "2">>, <<"s", "a", "m", "d", "2", "1", "e">>},
     variant_model : VariantModels,
     vendor : {<<"V", "x">>, <<"V", "-", "X">>}]

FamilyArgs == TextsOf(ContentFragments, MaxFragments)

\* a scan: the volumes present, those whose metadata cannot be read, the platform
ScanArgs ==
    {a \in [present : SUBSET Volumes, read_fails : SUBSET Volumes,
            is_win32 : BOOLEAN, label_ok : BOOLEAN] :
        /\ a.read_fails \subseteq a.present
        /\ a.is_win32 \/ a.label_ok}

RP2Model == <<"R", "a", "s", "p", "b", "e", "r", "r", "y", " ", "P", "i", " ", "R", "P", "2">>

\* a target combobox: count targets shown, the first with the given fields;
\* the shown text names the first target, nothing, or no target of the list
InfoArgs ==
    {a \in [model : {None, <<>>, <<"B">>, RP2Model},
            board_id : {None, <<>>, <<"x">>},
            family : {None, <<"s", "a", "m", "d", "2", "1">>},
            count : 0..2,
            shown : {"first", "none", "other"}] :
        a.shown = "first" => a.count > 0}

ArgTargetCombo(arg) ==
    LET first == [title |-> <<"E">>, path |-> <<"E">>, family |-> arg.family,
                  model |-> arg.model, board_id |-> arg.board_id]
        second == [title |-> <<"F">>, path |-> <<"F">>, family |-> None,
                   model |-> <<"B">>, board_id |-> None]
    IN  [mapping |-> SubSeq(<< <<first.title, first>>, <<second.title, second>> >>,
                            1, arg.count),
         desc |-> CASE arg.shown = "first" -> {<<"E">>}
                    [] arg.shown = "none" -> {}
                    [] OTHER -> {<<"G">>}]

FnInit ==
    /\ DialogInit
    /\ ~win32
    /\ fn \in [kind : {"match"}, arg : MatchArgs, result : {<<>>}, done : {FALSE}]
              \cup [kind : {"family"}, arg : FamilyArgs, result : {<<>>}, done : {FALSE}]
              \cup [kind : {"scan"}, arg : ScanArgs, result : {<<>>}, done : {FALSE}]
              \cup [kind : {"info"}, arg : InfoArgs, result : {<<>>}, done : {FALSE}]

ArgTarget(arg) ==
    [title |-> <<"E">>, path |-> <<"E">>, family |-> arg.target_family,
     model |-> arg.target_model, board_id |-> None]

ArgVariant(arg) ==
    [vendor |-> arg.vendor, model |-> arg.variant_model, family |-> arg.variant_family,
     title |-> None, info_url |-> "u", downloads |-> <<>>]

ApplyMatch ==
    /\ fn.kind = "match" /\ ~fn.done
    /\ fn' = [fn EXCEPT !.done = TRUE,
                        !.result = _variant_is_meant_for_target(ArgVariant(fn.arg),
                                                                ArgTarget(fn.arg))]
    /\ UNCHANGED dialogVars

ApplyFamily ==
    /\ fn.kind = "family" /\ ~fn.done
    /\ fn' = [fn EXCEPT !.done = TRUE,
                        !.result = _create_target_info(<<"E">>, fn.arg, FALSE, TRUE).family]
    /\ UNCHANGED dialogVars

ApplyScan ==
    /\ fn.kind = "scan" /\ ~fn.done
    /\ fn' = [fn EXCEPT !.done = TRUE,
                        !.result = find_targets(fn.arg.present, fn.arg.read_fails,
                                                fn.arg.label_ok, fn.arg.is_win32)]
    /\ UNCHANGED dialogVars

ApplyInfo ==
    /\ fn.kind = "info" /\ ~fn.done
    /\ fn' = [fn EXCEPT !.done = TRUE,
                        !.result = _update_target_info(ArgTargetCombo(fn.arg))]
    /\ UNCHANGED dialogVars

FnNext == ApplyMatch \/ ApplyFamily \/ ApplyScan \/ ApplyInfo

FnSpec == FnInit /\ [][FnNext]_vars

\* the word set of a text, stated on positions: lower-cased, "_" read as a
\* blank and "-" dropped, a word is a maximal run without whitespace
NormalizedText(text) ==
    SelectSeq([i \in DOMAIN text |-> IF text[i] = "_" THEN " " ELSE char_lower(text[i])],
              LAMBDA c : c # "-")

WordSet(text) ==
    LET n == NormalizedText(text)
    IN  {SubSeq(n, i, j) : <<i, j>> \in
            {p \in (DOMAIN n) \X (DOMAIN n) :
                /\ p[1] <= p[2]
                /\ \A k \in p[1]..p[2] : n[k] \notin Whitespace
                /\ p[1] = 1 \/ n[p[1] - 1] \in Whitespace
                /\ p[2] = Len(n) \/ n[p[2] + 1] \in Whitespace}}

IsPrefix(prefix, text) ==
    /\ Len(prefix) <= Len(text)
    /\ \A i \in DOMAIN prefix : text[i] = prefix[i]

\* C5: the exact-match test is true exactly when the target has a family
\* that is a prefix of the variant's family, the target has a model, and the
\* word sets of the two models are equal, either as they are or with the
\* vendor appended to both; so a target model that lacks the vendor name
\* matches a catalog model that is the vendor name followed by it.
C5_ExactMatchTest ==
    (fn.kind = "match" /\ fn.done)
        => LET a == fn.arg
               eligible == /\ a.target_family # None
                           /\ IsPrefix(a.target_family, a.variant_family)
                           /\ a.target_model # None
           IN  /\ fn.result =
                     (/\ eligible
                      /\ \/ WordSet(a.target_model) = WordSet(a.variant_model)
                         \/ WordSet(a.target_model \o <<" ">> \o a.vendor)
                              = WordSet(a.variant_model \o <<" ">> \o a.vendor))
               /\ (eligible /\ a.variant_model = a.vendor \o <<" ">> \o a.target_model)
                     => fn.result = TRUE

\* a match found only by the comparison with the vendor appended
C5_Witness ==
    /\ fn.kind = "match" /\ fn.done
    /\ fn.result = TRUE
    /\ fn.arg.variant_model = fn.arg.vendor \o <<" ">> \o fn.arg.target_model
    /\ WordSet(fn.arg.target_model) # WordSet(fn.arg.variant_model)

ClaimKeywords ==
    << <<"s", "a", "m", "d", "2", "1">>, <<"s", "a", "m", "d", "5", "1">>,
       <<"n", "r", "f", "5", "1">>, <<"n", "r", "f", "5", "2">>,
       <<"e", "s", "p", "3", "2", "s", "3">> >>

\* lower-cased, with blanks, underscores and hyphens removed
ClaimNormalized(content) ==
    SelectSeq([i \in DOMAIN content |-> char_lower(content[i])],
              LAMBDA c : c \notin {" ", "_", "-"})

ClaimFamily(content) ==
    LET n == ClaimNormalized(content)
        found == {k \in DOMAIN ClaimKeywords : str_contains(n, ClaimKeywords[k])}
    IN  IF str_contains(n, <<"b", "o", "a", "r", "d", "i", "d", ":", "r", "p", "i", "r", "p", "2">>)
        THEN <<"r", "p", "2">>
        ELSE IF found = {} THEN None
        ELSE ClaimKeywords[CHOOSE k \in found : \A m \in found : k <= m]

\* C10: the family of a metadata file is "rp2" when its normalized content
\* contains "boardid:rpirp2", otherwise the first keyword of samd21, samd51,
\* nrf51, nrf52, esp32s3, in this order, that the normalized content
\* contains, and absent when it contains none.
C10_FamilyInference ==
    (fn.kind = "family" /\ fn.done) => fn.result = ClaimFamily(fn.arg)

\* the marker decides although a keyword that comes first in the text is there too
C10_Witness ==
    /\ fn.kind = "family" /\ fn.done
    /\ fn.result = <<"r", "p", "2">>
    /\ str_contains(ClaimNormalized(fn.arg), <<"s", "a", "m", "d", "2", "1">>)

\* a later keyword of the list occurs earlier in the text than the one chosen
C10_WitnessListOrder ==
    /\ fn.kind = "family" /\ fn.done
    /\ fn.result = <<"s", "a", "m", "d", "5", "1">>
    /\ str_startswith(ClaimNormalized(fn.arg), <<"n", "r", "f", "5", "2">>)

(***************************************************************************)
(* The volume scan                                                         *)
(***************************************************************************)

\* C11: a scan over any set of candidate volumes where reading the metadata
\* of any subset of them fails returns exactly the targets of the volumes
\* that were read, one entry each under its title: a failing volume is left
\* out and hides no volume before or after it.
C11_ScanSkipsFailingVolumes ==
    (fn.kind = "scan" /\ fn.done)
        => LET a == fn.arg
               read == a.present \ a.read_fails
               info(vol) == _create_target_info(VolumePath(vol), VolumeContent(vol),
                                                a.is_win32, a.label_ok)
           IN  /\ Len(fn.result) = Cardinality(read)
               /\ \A vol \in read : <<info(vol).title, info(vol)>> \in SeqToSet(fn.result)
               /\ \A i \in DOMAIN fn.result : \E vol \in read : fn.result[i][2] = info(vol)

\* a volume that fails ahead of one that is detected
C11_Witness ==
    /\ fn.kind = "scan" /\ fn.done
    /\ \E failed \in fn.arg.read_fails :
          \E i \in DOMAIN fn.result :
             fn.result[i][2].path = VolumePath(failed + 1)

\* a volume that fails after one that is detected
C11_WitnessFailsLater ==
    /\ fn.kind = "scan" /\ fn.done
    /\ \E failed \in fn.arg.read_fails :
          \E i \in DOMAIN fn.result :
             fn.result[i][2].path = VolumePath(failed - 1)

(***************************************************************************)
(* What a refresh in the "idle" state leaves behind                        *)
(***************************************************************************)

IdleRefresh == last.op = "update_ui" /\ last.idle
SelectedTarget == combo_get_selected_value(_target_combo)
\* the catalog as line 98 of the last refresh read it
CatalogAt98 == IF last.raced THEN <<>> ELSE _downloaded_variants

\* C12: after every refresh in the idle state, if a variant is selected then
\* a target is selected, the variant list is the filtered variant set of the
\* selected target and the stored catalog, and the version list is the
\* version mapping of the selected variant's downloads.
C12_ListsAreCurrent ==
    (IdleRefresh /\ SelectedVariant # {})
        => /\ SelectedTarget # {}
           /\ \A t \in SelectedTarget :
                 _variant_combo.mapping = filtered_mapping(_downloaded_variants, t)
           /\ \A v \in SelectedVariant :
                 _version_combo.mapping = versions_mapping(v)

\* the user moved to another target and to another variant, and the refresh
\* replaced both lists
C12_Witness ==
    /\ IdleRefresh /\ ~last.targets_changed
    /\ JustHandledTarget /\ JustHandledVariant
    /\ SelectedVariant # {} /\ SelectedVariant # last.prev_variant
    /\ last.prev_variant # {}
    /\ ~(last.prev_variant \subseteq ShownVariants)

\* C13: after every refresh in the idle state the shown target set is the
\* one this refresh's scan detected.  If it differed from the set shown
\* before, the single target is selected when there is exactly one and none
\* otherwise, and the marker was reset, so a selected target is handled again
\* (as soon as a catalog is there); if it did not differ the target selection
\* is left as it was.
C13_TargetSetFollowsScan ==
    /\ [](IdleRefresh
          => /\ _target_combo.mapping = last.targets
             /\ last.targets_changed
                   => /\ SelectedTarget =
                            (IF Len(last.targets) = 1 THEN {last.targets[1][2]} ELSE {})
                      /\ (SelectedTarget # {} /\ CatalogAt98 # <<>>)
                            => last.handled_target = SelectedTarget
                      /\ (SelectedTarget = {} \/ CatalogAt98 = <<>>)
                            => _last_handled_target = {})
    /\ [][(last'.op = "update_ui" /\ last'.idle /\ ~last'.targets_changed)
             => UNCHANGED _target_combo]_vars

\* the set shrank to the target that was selected and handled before, and
\* that target is handled again
C13_Witness ==
    /\ IdleRefresh /\ last.targets_changed
    /\ Len(last.targets) = 1
    /\ last.handled_target = SelectedTarget
    /\ last.prev_variant # {}
    /\ last.prev_variant = SelectedVariant

\* C14: after every refresh in the idle state, with no target selected the
\* variant list and the version list are empty and no variant and no version
\* is selected; with no variant selected the version list is empty and no
\* version is selected.
C14_EmptyBelowNoSelection ==
    IdleRefresh
        => /\ SelectedTarget = {}
                 => /\ _variant_combo.mapping = <<>> /\ SelectedVariant = {}
                    /\ _version_combo.mapping = <<>> /\ SelectedVersion = {}
           /\ SelectedVariant = {}
                 => _version_combo.mapping = <<>> /\ SelectedVersion = {}

\* a target is selected and its variants are listed, but none is selected
C14_Witness ==
    /\ IdleRefresh
    /\ SelectedTarget # {}
    /\ _variant_combo.mapping # <<>>
    /\ SelectedVariant = {}
    /\ _version_combo.mapping = <<>>

\* the last target went away while a variant and a version were selected
C14_WitnessNoTarget ==
    /\ IdleRefresh /\ last.targets_changed
    /\ SelectedTarget = {}
    /\ _last_handled_variant # {}
    /\ _variant_combo.mapping = <<>>

\* C15: when a refresh handles a newly selected target, the number of exact
\* matches is not one and the variant selected before is not in the new
\* filtered set (or none was selected), no variant is selected afterwards.
C15_NothingSelectedOtherwise ==
    (/\ JustHandledTarget
     /\ Cardinality(ExactMatches) # 1
     /\ ~(last.prev_variant # {} /\ last.prev_variant \subseteq ShownVariants))
        => SelectedVariant = {}

(***************************************************************************)
(* A target selected before the catalog arrived                            *)
(***************************************************************************)

VariantListIsCurrent ==
    \A t \in SelectedTarget :
        _variant_combo.mapping = filtered_mapping(_downloaded_variants, t)

\* C16: a target selected while the fetch is outstanding gets its variant
\* list once a non-empty catalog is stored, as long as refreshes go on in
\* the idle state and a target stays selected: every refresh that starts
\* after the catalog write (one that did not race with it) ends with the
\* list filled with the selected target's filtered variant set, and such a
\* refresh eventually comes.
C16_VariantsFollowCatalog ==
    /\ []((/\ IdleRefresh /\ ~last.raced
           /\ _downloaded_variants # <<>>
           /\ SelectedTarget # {}) => VariantListIsCurrent)
    /\ (/\ SelectedTarget # {}
        /\ _downloaded_variants # <<>>
        /\ _variant_combo.mapping = <<>>)
          ~> (\/ _state # "idle"
              \/ SelectedTarget = {}
              \/ VariantListIsCurrent)

\* the only target was selected by an earlier refresh and is handled now
\* that the catalog is there
C16_Witness ==
    /\ IdleRefresh /\ ~last.raced /\ ~last.targets_changed
    /\ Len(_target_combo.mapping) = 1
    /\ JustHandledTarget
    /\ VariantListIsCurrent

\* the tick that raced with the catalog write: the catalog is stored, the
\* target is selected and the variant list is still empty
C16_WitnessRacedTick ==
    /\ IdleRefresh /\ last.raced
    /\ SelectedTarget # {}
    /\ _downloaded_variants # <<>>
    /\ _variant_combo.mapping = <<>>

(***************************************************************************)
(* The target info display                                                 *)
(***************************************************************************)

UnknownBoard == <<"U", "n", "k", "n", "o", "w", "n", " ", "b", "o", "a", "r", "d">>

\* the display for a selected target, has(field) telling whether the target
\* counts as having the field
InfoForTarget(a, has(_)) ==
    IF has(a.model)
    THEN IF a.model = RP2Model
         THEN [text |-> StrText(<<"R", "P", "2">>), label |-> "family"]
         ELSE [text |-> StrText(a.model), label |-> "model"]
    ELSE IF has(a.board_id) THEN [text |-> StrText(a.board_id), label |-> "board id"]
    ELSE IF has(a.family) THEN [text |-> StrText(a.family), label |-> "family"]
    ELSE [text |-> StrText(UnknownBoard), label |-> "info"]

\* the display with no target selected
InfoForNoTarget(a) ==
    IF a.count = 0
    THEN [text |-> Message("[no suitable targets detected]", 0), label |-> ""]
    ELSE [text |-> Message("[found {n} targets, please select one]", a.count), label |-> ""]

IsPresent(field) == field # None
IsNonEmpty(field) == field # None /\ field # <<>>

\* C17 as stated: the display follows the selection, a target "with a
\* model" being one whose model is present: model (relabelled "RP2" under
\* "family" for "Raspberry Pi RP2"), else board id, else family, else
\* "Unknown board"; with no target selected the no-targets message or the
\* prompt with the number of targets.
C17_TargetInfoAsStated ==
    (fn.kind = "info" /\ fn.done)
        => IF fn.arg.shown = "first"
           THEN /\ fn.result.text = InfoForTarget(fn.arg, IsPresent).text
                /\ fn.result.text # StrText(UnknownBoard)
                      => fn.result.label = InfoForTarget(fn.arg, IsPresent).label
           ELSE fn.result = InfoForNoTarget(fn.arg)

\* C17: the same with a field counting only when it is present and not the
\* empty string, the label of "Unknown board" being "info" and the label of
\* the two messages being empty.
C17_TargetInfo ==
    (fn.kind = "info" /\ fn.done)
        => fn.result = (IF fn.arg.shown = "first"
                        THEN InfoForTarget(fn.arg, IsNonEmpty)
                        ELSE InfoForNoTarget(fn.arg))

\* the literal model that is shown as a family, although a board id is there
C17_Witness ==
    /\ fn.kind = "info" /\ fn.done
    /\ fn.arg.shown = "first"
    /\ fn.arg.model = RP2Model
    /\ fn.arg.board_id = <<"x">>
    /\ fn.result = [text |-> StrText(<<"R", "P", "2">>), label |-> "family"]

\* an empty model gives way to the board id
C17_WitnessEmptyModel ==
    /\ fn.kind = "info" /\ fn.done
    /\ fn.arg.shown = "first"
    /\ fn.arg.model = <<>>
    /\ fn.result = [text |-> StrText(<<"x">>), label |-> "board id"]

(***************************************************************************)
(* The fetch thread and the construction of the dialog                     *)
(***************************************************************************)

\* C18: the fetch thread runs the dialog operations of its failure handler
\* (append_text, set_action_text, grid_progress_widgets) only once the
\* construction of the dialog has completed.
C18_FailureHandledAfterConstruction ==
    [][(dlPc = "fetching" /\ dlPc' \in {"failed", "died"}) => mainPc = "ready"]_vars

(***************************************************************************)
(* The version list after a target was handled                             *)
(***************************************************************************)

\* C19 as stated: a refresh that handles a target and leaves a variant
\* selected handles that variant in the same refresh, and the selected
\* version is the URL of the variant's first download.
C19_VersionResetToFirstDownload ==
    (JustHandledTarget /\ SelectedVariant # {})
        => /\ last.handled_variant = SelectedVariant
           /\ _last_handled_variant = SelectedVariant
           /\ \A v \in SelectedVariant :
                 IF v.downloads # <<>>
                 THEN SelectedVersion = {v.downloads[1].url}
                 ELSE SelectedVersion = {}

\* C19 (amended): a refresh that handles a target and leaves a variant
\* selected, a kept one included, handles that variant in the same refresh:
\* the version list is recomputed (one entry per distinct version string) and
\* the first entry of the list is selected, whatever version was selected
\* before; with no downloads the list is empty and no version is selected.
C19_VersionResetWithTarget ==
    (JustHandledTarget /\ SelectedVariant # {})
        => /\ last.handled_variant = SelectedVariant
           /\ _last_handled_variant = SelectedVariant
           /\ \A v \in SelectedVariant :
                 IF v.downloads # <<>>
                 THEN /\ _version_combo.mapping = DistinctVersionPairs(v)
                      /\ SelectedVersion = {DistinctVersionPairs(v)[1][2]}
                 ELSE /\ _version_combo.mapping = <<>>
                      /\ SelectedVersion = {}

\* the variant was kept and the version the user had chosen is gone
C19_Witness ==
    /\ JustHandledTarget
    /\ SelectedVariant # {}
    /\ last.prev_variant = SelectedVariant
    /\ last.prev_version # {}
    /\ last.prev_version # SelectedVersion
    /\ last.handled_variant = SelectedVariant

(***************************************************************************)
(* The refresh outside the "idle" state                                    *)
(***************************************************************************)

\* C20: a refresh while the dialog is not in the "idle" state leaves the
\* three lists, the three selections and the two markers as they are.
C20_NoRefreshWhileBusy ==
    [][(last'.op = "update_ui" /\ _state # "idle")
          => UNCHANGED <<_target_combo, _variant_combo, _version_combo,
                         _last_handled_target, _last_handled_variant>>]_vars

\* the volume of the shown target is gone, and the refresh kept the target
C20_Witness ==
    /\ last.op = "update_ui"
    /\ _state # "idle"
    /\ volumes = {}
    /\ SelectedTarget # {}

\* the catalog arrived for a selected target, and the refresh kept the
\* variant list empty
C20_WitnessCatalog ==
    /\ last.op = "update_ui"
    /\ _state # "idle"
    /\ _downloaded_variants # <<>>
    /\ SelectedTarget # {}
    /\ _variant_combo.mapping = <<>>

=============================================================================
